---- MODULE Spec2Model ----
(***************************************************************************)
(* pushpop: the WebSocket hub (Hub, sync.Map registry) and its per-link    *)
(* Client with the readPump / writePump goroutines.                        *)
(*                                                                         *)
(* Goroutines are tasks: "hub" is Hub.Run, "trig" is the goroutine of one  *)
(* HTTP /trigger request, and every connection c has its readPump (task c) *)
(* and its writePump (wp[c]).  A handler is one action up to the points    *)
(* where the Go code can be interleaved with another goroutine: a channel  *)
(* send that may block, and every callback of a sync.Map Range.            *)
(***************************************************************************)
EXTENDS Integers, Sequences, FiniteSets, TLC

\* ---------------------------------------------------------------- bounds
Conns == {"c1", "c2"}
Chans == {"a", "b"}
Payloads == {1}
\* the links whose peer sends frames; the peer of the other link only listens,
\* subscribed to ListenerChans
Speakers == {"c1"}
ListenerChans == {"a"}

\* capacity of Client.send (make(chan Message, 256)), scaled down
SendCap == 1
\* capacity of Hub.register / unregister / broadcast (make(chan .., 100)), scaled down
HubQueueCap == 1
\* frames the peers send, /trigger requests served, spontaneous link failures
MaxFrames == 2
MaxTriggers == 1
MaxFaults == 1
\* of the client runtime: API calls made, successful opens, trigger calls
MaxCalls == 3
MaxOpens == 2
MaxPosts == 1
MaxMsgs == 1
EventNames == {"chat", "news"}
Callbacks == {"cb1", "cb2"}
\* close codes the socket reports, and values of Math.random() * 500
CloseCodes == {1000, 1001, 1005, 1006}
Jitters == {0, 499}
\* channels SocketServer.trigger is called for
PostChans == {"a"}
\* of the timed link: the clock advances by TimeStep up to MaxTime (ms), the
\* peer sends MaxPings ping frames and the Hub delivers MaxDeliveries messages
TimeStep == 6000
MaxTime == 120000
MaxPings == 2
MaxDeliveries == 2
\* capacity of every queue where the order of queued messages is looked at
OrderCap == 2

BTasks == {"hub", "trig"}
Tasks == BTasks \cup Conns

NoClient == "-"
NoMsg == [channel |-> "", event |-> "", payload |-> 0]
Message(ch, ev, p) == [channel |-> ch, event |-> ev, payload |-> p]
Subscription(c, ch) == [Client |-> c, Channel |-> ch]

\* frames a link carries from server to peer
MsgFrame(m) == [kind |-> "message", msg |-> m]
PongFrame == [kind |-> "pong", msg |-> NoMsg]
CloseFrame == [kind |-> "close", msg |-> NoMsg]
PingFrame == [kind |-> "ping", msg |-> NoMsg]

VARIABLES
  clients,        \* Hub.clients: the set of stored clients
  channels,       \* Hub.channels: channel name -> member set (partial map)
  register,       \* Hub.register queue
  unregister,     \* Hub.unregister queue
  broadcast,      \* Hub.broadcast queue
  clientChannels, \* Client.channels of every connection
  send,           \* Client.send: buffered outbound queue
  closed,         \* Client.send has been closed
  closes,         \* number of close(client.send) executed
  conn,           \* Client.conn: "open" or "closed"
  out,            \* frames written to the link, in order
  pc,             \* position of every task
  wp,             \* position of every writePump
  bc,             \* broadcastMessage in progress, per broadcasting task
  rm,             \* RemoveClient in progress, per task
  fatal,          \* the runtime panic that ended the process, or "none"
  status,         \* the response to the /trigger request, "none" before it is written
  expected,       \* net effect of the subscribe / unsubscribe frames read so far
  rmIssued,       \* unregister events issued by RemoveClient, per subscription
  forced,         \* connections a broadcast found with a full queue
  frames,         \* frames still to be read
  trigs,          \* trigger requests still to be served
  faults,         \* spontaneous link failures still to happen
  \* ---- the TypeScript client runtime (ts-client/src/index.ts)
  socket,           \* readyState of SocketClient.socket
  tsChannels,       \* SocketClient.channels: the Channel objects in insertion order
  reconnectAttempts,\* SocketClient.reconnectAttempts
  reconnectTimeout, \* SocketClient.reconnectTimeout: the timer handle or Null
  messageQueue,     \* SocketClient.messageQueue
  wire,             \* data passed to socket.send of the current socket, in order
  errors,           \* 'Max reconnect attempts reached' lines written to console.error
  invoked,          \* callback invocations made by the last onmessage, in order
  fetched,          \* requests SocketServer.trigger passed to fetch
  outcome,          \* how the promise of the last SocketServer.trigger settled
  made,             \* Channel objects constructed so far
  issued,           \* actions submitted while the socket was not open, in order,
                    \* kept until the socket that opened next is left
  last,             \* the last API call made
  tracked,          \* net effect of the subscribe / unsubscribe calls
  bindings,         \* bind calls made and not undone by an unbind or by an
                    \* unsubscribe of their channel
  bound,            \* net effect of the bind / unbind calls on tracked channels
  msgs,             \* incoming frames still to arrive
  delays,           \* nominal delays scheduled since the last open
  calls,            \* API calls still to be made
  opens,            \* successful opens still to happen
  posts,            \* SocketServer.trigger calls still to be made
  cap,              \* capacity of Client.send and of the Hub's three queues
  \* ---- one link at the grain of its timers and of its frame writes
  now,              \* the clock, in ms
  readDeadline,     \* the read deadline of Client.conn
  extended,         \* when the read deadline was last set
  ticker,           \* period of the time.Ticker of writePump
  nextTick,         \* when the ticker fires next
  unanswered,       \* transport-level pings written and not yet answered
  writers,          \* the tasks inside a write call on Client.conn
  overlap,          \* a write call has begun while another was in progress
  pings,            \* ping frames still to be read
  deliveries        \* messages still to be delivered to Client.send

hubVars == <<clients, channels, register, unregister, broadcast>>
clientVars == <<clientChannels, send, closed, closes, conn, out>>
taskVars == <<pc, wp, bc, rm, fatal>>
ghostVars == <<expected, rmIssued, forced, frames, trigs, faults>>
tsVars == <<socket, tsChannels, reconnectAttempts, reconnectTimeout, messageQueue,
           wire, errors, invoked, fetched, outcome, made, issued, last, tracked,
           bindings, bound, msgs, delays, calls, opens, posts>>
linkVars == <<cap, now, readDeadline, extended, ticker, nextTick, unanswered, writers,
             overlap, pings, deliveries>>
serverVars == <<hubVars, clientVars, taskVars, ghostVars, status, linkVars>>
vars == <<serverVars, tsVars>>

\* ------------------------------------------------------------ sync.Map
Has(m, k) == k \in DOMAIN m
Store(m, k, v) == [x \in (DOMAIN m) \cup {k} |-> IF x = k THEN v ELSE m[x]]
Delete(m, k) == [x \in (DOMAIN m) \ {k} |-> m[x]]
Members(ch) == IF Has(channels, ch) THEN channels[ch] ELSE {}

\* ----------------------------------------------------------------- Hub
IdleBc == [msg |-> NoMsg, todo |-> {}, start |-> {}, left |-> {},
           got |-> [c \in Conns |-> 0], sat |-> FALSE]
IdleRm == [client |-> NoClient, todo |-> {}]
Home(t) == IF t = "hub" THEN "select" ELSE IF t = "trig" THEN "idle" ELSE "done"

\* NewHub, then ServeWs for every link, then the subscribe frames of the peers
\* handled by addSubscription: every link is open with both pumps running and
\* is subscribed to some set of channels; all queues are empty
HubInit ==
  /\ clients = Conns
  /\ clientChannels \in {f \in [Conns -> SUBSET Chans] :
                          \A c \in Conns \ Speakers : f[c] = ListenerChans}
  /\ channels = [ch \in {x \in Chans : \E c \in Conns : x \in clientChannels[c]} |->
                   {c \in Conns : ch \in clientChannels[c]}]
  /\ register = <<>>
  /\ unregister = <<>>
  /\ broadcast = <<>>
  /\ send = [c \in Conns |-> <<>>]
  /\ closed = [c \in Conns |-> FALSE]
  /\ closes = [c \in Conns |-> 0]
  /\ conn = [c \in Conns |-> "open"]
  /\ out = [c \in Conns |-> <<>>]
  /\ pc = [t \in Tasks |-> IF t \in Conns THEN "read" ELSE Home(t)]
  /\ wp = [c \in Conns |-> "run"]
  /\ bc = [t \in BTasks |-> IdleBc]
  /\ rm = [t \in Tasks |-> IdleRm]
  /\ fatal = "none"
  /\ status = "none"
  /\ expected = clientChannels
  /\ rmIssued = [c \in Conns |-> [ch \in Chans |-> 0]]
  /\ forced = {}
  /\ frames = MaxFrames
  /\ trigs = MaxTriggers
  /\ faults = MaxFaults

Running == fatal = "none"

\* make(chan Message, n) in ServeWs and the make(chan ..., n) of NewHub
Buffered(n, m) == cap = [send |-> n, hub |-> m]

\* Constants for WebSocket timeouts, in ms
Second == 1000
pongWait == 60 * Second
pingPeriodHalf == pongWait \div 2
pingPeriod == (pongWait * 9) \div 10

\* ServeWs: SetReadDeadline(time.Now().Add(pongWait)); writePump: NewTicker
ServeWs ==
  /\ now = 0
  /\ extended = [c \in Conns |-> 0]
  /\ readDeadline = [c \in Conns |-> pongWait]
  /\ ticker = [c \in Conns |-> pingPeriod]
  /\ nextTick = [c \in Conns |-> pingPeriod]
  /\ unanswered = [c \in Conns |-> 0]
  /\ writers = [c \in Conns |-> {}]
  /\ overlap = FALSE
  /\ pings = MaxPings
  /\ deliveries = MaxDeliveries

\* addSubscription
ChannelsAfterAddNoCreate(c, ch) ==
  IF Has(channels, ch) THEN Store(channels, ch, channels[ch] \cup {c}) ELSE channels
ChannelsAfterAddFresh(c, ch) == Store(channels, ch, {c})
ChannelsAfterAdd(c, ch) == Store(channels, ch, Members(ch) \cup {c})
ClientChannelsAfterAdd(c, ch) == [clientChannels EXCEPT ![c] = @ \cup {ch}]

HubRegister ==
  /\ Running
  /\ pc["hub"] = "select"
  /\ register # <<>>
  /\ LET sub == Head(register) IN
       /\ channels' = ChannelsAfterAdd(sub.Client, sub.Channel)
       /\ clientChannels' = ClientChannelsAfterAdd(sub.Client, sub.Channel)
  /\ register' = Tail(register)
  /\ UNCHANGED <<clients, unregister, broadcast, send, closed, closes, conn, out,
                 taskVars, ghostVars>>
  /\ UNCHANGED <<status, tsVars, linkVars>>

\* removeSubscription
ChannelsAfterRemoveKeepsEntry(c, ch) ==
  IF Has(channels, ch) THEN Store(channels, ch, channels[ch] \ {c}) ELSE channels
ChannelsAfterRemove(c, ch) ==
  IF Has(channels, ch)
    THEN LET members == channels[ch] \ {c}
             count == IF members = {} THEN 0 ELSE 1
         IN IF count = 0 THEN Delete(channels, ch) ELSE Store(channels, ch, members)
    ELSE channels
ClientChannelsAfterRemoveKeeps(c, ch) == clientChannels
ClientChannelsAfterRemove(c, ch) ==
  IF Has(channels, ch) THEN [clientChannels EXCEPT ![c] = @ \ {ch}] ELSE clientChannels

\* what a Range running in another goroutine over the member map of ch sees
\* of the removal: a deleted key is not visited, and once the entry of ch is
\* deleted from Hub.channels the map being ranged over has no key left
RangeAfterRemove(b, c, ch) ==
  IF b.msg.channel = ch /\ Has(channels, ch)
    THEN [b EXCEPT !.left = @ \cup {c},
                   !.todo = IF Has(ChannelsAfterRemove(c, ch), ch) THEN @ ELSE {}]
    ELSE b

HubUnregister ==
  /\ Running
  /\ pc["hub"] = "select"
  /\ unregister # <<>>
  /\ LET sub == Head(unregister) IN
       /\ channels' = ChannelsAfterRemove(sub.Client, sub.Channel)
       /\ clientChannels' = ClientChannelsAfterRemove(sub.Client, sub.Channel)
       /\ bc' = [bc EXCEPT !["trig"] = RangeAfterRemove(@, sub.Client, sub.Channel)]
  /\ unregister' = Tail(unregister)
  /\ UNCHANGED <<clients, register, broadcast, send, closed, closes, conn, out,
                 pc, wp, rm, fatal, ghostVars>>
  /\ UNCHANGED <<status, tsVars, linkVars>>

\* broadcastMessage up to the first callback of the Range: h.channels.Load
LoadedAlways(m) == TRUE
Loaded(m) == Has(channels, m.channel)
BeginBroadcast(m) ==
  [msg |-> m, todo |-> Members(m.channel), start |-> Members(m.channel), left |-> {},
   got |-> [c \in Conns |-> 0], sat |-> FALSE]

HubBroadcast ==
  /\ Running
  /\ pc["hub"] = "select"
  /\ broadcast # <<>>
  /\ LET message == Head(broadcast) IN
       IF Loaded(message)
         THEN /\ pc' = [pc EXCEPT !["hub"] = "bcast"]
              /\ bc' = [bc EXCEPT !["hub"] = BeginBroadcast(message)]
         ELSE UNCHANGED <<pc, bc>>
  /\ broadcast' = Tail(broadcast)
  /\ UNCHANGED <<clients, channels, register, unregister, clientVars, wp, rm, fatal,
                 ghostVars>>
  /\ UNCHANGED <<status, tsVars, linkVars>>

\* a /trigger request: its method, its body and whether its context is done
\* when the handler reaches the select.  A body is JSON text, abstracted to its
\* syntax and the fields a Message takes from it; "{}" has none of the fields
Methods == {"POST", "GET"}
Body(syntax, ch, ev, p) == [syntax |-> syntax, channel |-> ch, event |-> ev, payload |-> p]
Bodies == {Body("ok", ch, "chat", p) : ch \in Chans, p \in Payloads}
            \cup {Body("ok", "", "", 0), Body("bad", "", "", 0)}
Requests == [method : Methods, body : Bodies, done : BOOLEAN]

\* json.NewDecoder(r.Body).Decode(&message)
Decode(body) ==
  IF body.syntax = "ok"
    THEN [err |-> FALSE, message |-> Message(body.channel, body.event, body.payload)]
    ELSE [err |-> TRUE, message |-> NoMsg]

\* HandleTrigger -> Hub.Trigger -> broadcastMessage, in the request's goroutine;
\* the 200 is written when broadcastMessage has returned
HandleTrigger(r) ==
  /\ Running
  /\ pc["trig"] = "idle"
  /\ trigs > 0
  /\ trigs' = trigs - 1
  /\ IF r.method # "POST"
       THEN status' = "405" /\ UNCHANGED <<pc, bc>>
       ELSE IF Decode(r.body).err
         THEN status' = "400" /\ UNCHANGED <<pc, bc>>
         ELSE IF r.done
           THEN status' = "408" /\ UNCHANGED <<pc, bc>>
           ELSE LET m == Decode(r.body).message IN
                  IF Loaded(m)
                    THEN /\ pc' = [pc EXCEPT !["trig"] = "bcast"]
                         /\ bc' = [bc EXCEPT !["trig"] = BeginBroadcast(m)]
                         /\ status' = "none"
                    ELSE status' = "200" /\ UNCHANGED <<pc, bc>>
  /\ UNCHANGED <<hubVars, clientVars, wp, rm, fatal, expected, rmIssued, forced, frames, faults>>
  /\ UNCHANGED <<tsVars, linkVars>>

\* the keys a Range still visits: deleted keys are skipped
ToVisit(t) == bc[t].todo \cap Members(bc[t].msg.channel)
RmToVisit(t) == rm[t].todo \cap clientChannels[rm[t].client]

\* a runtime panic in task t.  In the goroutine of an HTTP request net/http
\* recovers it: the handler is abandoned and the request gets no response.
\* In any other goroutine it ends the process
Panic(t, what) ==
  IF t = "trig"
    THEN /\ pc' = [pc EXCEPT ![t] = Home(t)]
         /\ bc' = [bc EXCEPT ![t] = IdleBc]
         /\ rm' = [rm EXCEPT ![t] = IdleRm]
         /\ status' = "aborted"
         /\ UNCHANGED fatal
    ELSE /\ fatal' = what
         /\ UNCHANGED <<pc, bc, rm, status>>

\* RemoveClient(c) run by task t, with the channels in todo still to be
\* announced on h.unregister.  With none left: h.clients.Delete, close(client.send)
\* and the return to the caller, which is the Range of broadcastMessage or the
\* deferred c.conn.Close() of readPump
RemoveClient(t, c, todo) ==
  IF todo # {}
    THEN /\ pc' = [pc EXCEPT ![t] = "remove"]
         /\ rm' = [rm EXCEPT ![t] = [client |-> c, todo |-> todo]]
         /\ bc' = IF t \in BTasks THEN [bc EXCEPT ![t].sat = TRUE] ELSE bc
         /\ UNCHANGED <<clients, closed, closes, conn, fatal, status>>
    ELSE /\ clients' = clients \ {c}
         /\ closes' = [closes EXCEPT ![c] = @ + 1]
         /\ IF closed[c]
              THEN Panic(t, "close of closed channel") /\ UNCHANGED <<closed, conn>>
              ELSE /\ closed' = [closed EXCEPT ![c] = TRUE]
                   /\ rm' = [rm EXCEPT ![t] = IdleRm]
                   /\ UNCHANGED <<fatal, status>>
                   /\ IF t \in BTasks
                        THEN /\ pc' = [pc EXCEPT ![t] = "bcast"]
                             /\ bc' = [bc EXCEPT ![t].todo = @ \ {c}, ![t].sat = TRUE]
                             /\ UNCHANGED conn
                        ELSE /\ pc' = [pc EXCEPT ![t] = "done"]
                             /\ conn' = [conn EXCEPT ![t] = "closed"]
                             /\ UNCHANGED bc

\* case client.send <- message
TrySendLost(q, m) == q
TrySendFirst(q, m) == <<m>> \o q
TrySend(q, m) == Append(q, m)
HasRoom(c) == Len(send[c]) < cap.send

\* one callback of clients.Range in broadcastMessage
BroadcastVisit(t, c) ==
  /\ Running
  /\ pc[t] = "bcast"
  /\ c \in ToVisit(t)
  /\ IF closed[c]
       THEN /\ Panic(t, "send on closed channel")
            /\ UNCHANGED <<clients, send, closed, closes, conn, forced>>
       ELSE IF HasRoom(c)
         THEN /\ send' = [send EXCEPT ![c] = TrySend(@, bc[t].msg)]
              /\ bc' = [bc EXCEPT ![t].todo = @ \ {c},
                                  ![t].got = [x \in Conns |-> @[x] + Len(send'[x]) - Len(send[x])]]
              /\ UNCHANGED <<clients, closed, closes, conn, pc, rm, fatal, status, forced>>
         ELSE /\ forced' = forced \cup {c}
              /\ RemoveClient(t, c, clientChannels[c])
              /\ UNCHANGED send
  /\ UNCHANGED <<channels, register, unregister, broadcast, clientChannels, out, wp,
                 expected, rmIssued, frames, trigs, faults>>
  /\ UNCHANGED <<tsVars, linkVars>>

\* the Range of broadcastMessage has no key left: the broadcast returns
BroadcastReturn(t) ==
  /\ Running
  /\ pc[t] = "bcast"
  /\ ToVisit(t) = {}
  /\ pc' = [pc EXCEPT ![t] = Home(t)]
  /\ bc' = [bc EXCEPT ![t] = IdleBc]
  /\ status' = IF t = "trig" THEN "200" ELSE status
  /\ UNCHANGED <<hubVars, clientVars, wp, rm, fatal, ghostVars>>
  /\ UNCHANGED <<tsVars, linkVars>>

\* one callback of client.channels.Range in RemoveClient: h.unregister <- sub
RemoveClientUnregister(t, ch) ==
  /\ Running
  /\ pc[t] = "remove"
  /\ ch \in RmToVisit(t)
  /\ Len(unregister) < cap.hub
  /\ unregister' = Append(unregister, Subscription(rm[t].client, ch))
  /\ rmIssued' = [rmIssued EXCEPT ![rm[t].client][ch] = @ + 1]
  /\ RemoveClient(t, rm[t].client, RmToVisit(t) \ {ch})
  /\ UNCHANGED <<channels, register, broadcast, clientChannels, send, out, wp,
                 expected, forced, frames, trigs, faults>>
  /\ UNCHANGED <<tsVars, linkVars>>

\* the channels left to announce were all deleted by the Hub meanwhile
RemoveClientSkip(t) ==
  /\ Running
  /\ pc[t] = "remove"
  /\ RmToVisit(t) = {}
  /\ RemoveClient(t, rm[t].client, {})
  /\ UNCHANGED <<channels, register, unregister, broadcast, clientChannels, send, out,
                 wp, ghostVars>>
  /\ UNCHANGED <<tsVars, linkVars>>

\* ------------------------------------------------------------- readPump
\* a frame read from the peer: whether it is a text frame, whether its data is
\* JSON, and the fields the JSON object carries ("" for a missing string)
Inbound(text, json, action, ch, ev, p) ==
  [text |-> text, json |-> json, action |-> action, channel |-> ch, event |-> ev,
   payload |-> p]
Actions == {"subscribe", "unsubscribe", "message"}
Inbounds ==
  {Inbound(TRUE, TRUE, a, ch, "", p) : a \in Actions, ch \in Chans \cup {""}, p \in Payloads}
    \cup {Inbound(TRUE, TRUE, "ping", ch, "", 0) : ch \in {"", "a"}}
    \cup {Inbound(TRUE, TRUE, "message", "a", "chat", p) : p \in Payloads}
    \cup {Inbound(TRUE, TRUE, "other", "a", "", 0), Inbound(FALSE, TRUE, "subscribe", "a", "", 0),
          Inbound(TRUE, FALSE, "", "", "", 0)}

\* the branch of the loop body a frame takes
HandlingAnyChannel(f) ==
  IF ~f.text \/ ~f.json THEN "drop"
  ELSE IF f.action \in {"ping", "subscribe", "unsubscribe", "message"} THEN f.action
  ELSE "drop"
Handling(f) ==
  IF ~f.text THEN "drop"
  ELSE IF ~f.json THEN "drop"
  ELSE CASE f.action = "ping" -> "ping"
         [] f.action = "subscribe" -> IF f.channel = "" THEN "drop" ELSE "subscribe"
         [] f.action = "unsubscribe" -> IF f.channel = "" THEN "drop" ELSE "unsubscribe"
         [] f.action = "message" -> IF f.channel = "" THEN "drop" ELSE "message"
         [] OTHER -> "drop"
Taken == [h \in {"ping", "subscribe", "unsubscribe", "message", "drop"} |->
            {f \in Inbounds : Handling(f) = h}]

CanRead(c) == Running /\ c \in Speakers /\ pc[c] = "read" /\ conn[c] = "open" /\ frames > 0
\* a failure of an open link is spontaneous; on a closed link every call fails
Fails(c) == conn[c] = "closed" \/ faults > 0
AfterFailure(c) == IF conn[c] = "closed" THEN faults ELSE faults - 1

\* c.conn.ReadMessage returns an error: the deferred RemoveClient, c.conn.Close
ReadError(c) ==
  /\ Running
  /\ pc[c] = "read"
  /\ Fails(c)
  /\ faults' = AfterFailure(c)
  /\ RemoveClient(c, c, clientChannels[c])
  /\ UNCHANGED <<channels, register, unregister, broadcast, clientChannels, send, out,
                 wp, expected, rmIssued, forced, frames, trigs>>
  /\ UNCHANGED <<tsVars, linkVars>>

\* case "ping": the pong is written to this link, or the write fails
WritePongTwice(o) == Append(Append(o, PongFrame), PongFrame)
WritePong(o) == Append(o, PongFrame)
ReadPing(c, f, wrote) ==
  /\ CanRead(c)
  /\ Handling(f) = "ping"
  /\ frames' = frames - 1
  /\ IF wrote
       THEN /\ out' = [out EXCEPT ![c] = WritePong(@)]
            /\ UNCHANGED <<clients, closed, closes, conn, pc, rm, bc, fatal, status, faults>>
       ELSE /\ faults > 0
            /\ faults' = faults - 1
            /\ RemoveClient(c, c, clientChannels[c])
            /\ UNCHANGED out
  /\ UNCHANGED <<channels, register, unregister, broadcast, clientChannels, send, wp,
                 expected, rmIssued, forced, trigs>>
  /\ UNCHANGED <<tsVars, linkVars>>

\* case "subscribe" with a channel
ReadSubscribe(c, f) ==
  /\ CanRead(c)
  /\ Handling(f) = "subscribe"
  /\ Len(register) < cap.hub
  /\ frames' = frames - 1
  /\ register' = Append(register, Subscription(c, f.channel))
  /\ expected' = [expected EXCEPT ![c] = @ \cup {f.channel}]
  /\ UNCHANGED <<clients, channels, unregister, broadcast, clientVars, taskVars,
                 rmIssued, forced, trigs, faults>>
  /\ UNCHANGED <<status, tsVars, linkVars>>

\* case "unsubscribe" with a channel
ReadUnsubscribe(c, f) ==
  /\ CanRead(c)
  /\ Handling(f) = "unsubscribe"
  /\ Len(unregister) < cap.hub
  /\ frames' = frames - 1
  /\ unregister' = Append(unregister, Subscription(c, f.channel))
  /\ expected' = [expected EXCEPT ![c] = @ \ {f.channel}]
  /\ UNCHANGED <<clients, channels, register, broadcast, clientVars, taskVars,
                 rmIssued, forced, trigs, faults>>
  /\ UNCHANGED <<status, tsVars, linkVars>>

\* case "message" with a channel
PublishedEcho(f) == Message(f.channel, f.event, f.payload)
Published(f) == Message(f.channel, "message", f.payload)
ReadPublish(c, f) ==
  /\ CanRead(c)
  /\ Handling(f) = "message"
  /\ Len(broadcast) < cap.hub
  /\ frames' = frames - 1
  /\ broadcast' = Append(broadcast, Published(f))
  /\ UNCHANGED <<clients, channels, register, unregister, clientVars, taskVars,
                 expected, rmIssued, forced, trigs, faults>>
  /\ UNCHANGED <<status, tsVars, linkVars>>

\* a frame that is not text, not JSON, of an unhandled action, or a
\* subscribe / unsubscribe / message without a channel: logged and dropped
ReadDropped(c, f) ==
  /\ CanRead(c)
  /\ Handling(f) = "drop"
  /\ frames' = frames - 1
  /\ UNCHANGED <<hubVars, clientVars, taskVars, expected, rmIssued, forced, trigs, faults>>
  /\ UNCHANGED <<status, tsVars, linkVars>>

\* ------------------------------------------------------------ writePump
\* case message, ok := <-c.send with ok: WriteJSON succeeds
WritePumpSend(c) ==
  /\ Running
  /\ wp[c] = "run"
  /\ conn[c] = "open"
  /\ send[c] # <<>>
  /\ out' = [out EXCEPT ![c] = Append(@, MsgFrame(Head(send[c])))]
  /\ send' = [send EXCEPT ![c] = Tail(@)]
  /\ UNCHANGED <<hubVars, clientChannels, closed, closes, conn, taskVars, ghostVars>>
  /\ UNCHANGED <<status, tsVars, linkVars>>

\* WriteJSON of a received message (took) or the ticker's ping fails: return,
\* and the deferred c.conn.Close().  wp records "failed" when the outbound
\* loop is the first of the two loops to meet a failure, "done" otherwise
WritePumpError(c, took) ==
  /\ Running
  /\ wp[c] = "run"
  /\ took => send[c] # <<>>
  /\ Fails(c)
  /\ faults' = AfterFailure(c)
  /\ send' = [send EXCEPT ![c] = IF took THEN Tail(@) ELSE @]
  /\ wp' = [wp EXCEPT ![c] = IF pc[c] = "read" THEN "failed" ELSE "done"]
  /\ conn' = [conn EXCEPT ![c] = "closed"]
  /\ UNCHANGED <<hubVars, clientChannels, closed, closes, out, pc, bc, rm, fatal,
                 expected, rmIssued, forced, frames, trigs>>
  /\ UNCHANGED <<status, tsVars, linkVars>>

\* case message, ok := <-c.send with !ok: close frame, return
WritePumpClosedEarly(c) ==
  /\ Running
  /\ wp[c] = "run"
  /\ closed[c]
  /\ out' = [out EXCEPT ![c] = IF conn[c] = "open" THEN Append(@, CloseFrame) ELSE @]
  /\ wp' = [wp EXCEPT ![c] = "done"]
  /\ conn' = [conn EXCEPT ![c] = "closed"]
  /\ UNCHANGED <<hubVars, clientChannels, send, closed, closes, pc, bc, rm, fatal,
                 ghostVars>>
  /\ UNCHANGED <<status, tsVars, linkVars>>
WritePumpClosed(c) ==
  /\ Running
  /\ wp[c] = "run"
  /\ closed[c]
  /\ send[c] = <<>>
  /\ out' = [out EXCEPT ![c] = IF conn[c] = "open" THEN Append(@, CloseFrame) ELSE @]
  /\ wp' = [wp EXCEPT ![c] = "done"]
  /\ conn' = [conn EXCEPT ![c] = "closed"]
  /\ UNCHANGED <<hubVars, clientChannels, send, closed, closes, pc, bc, rm, fatal,
                 ghostVars>>
  /\ UNCHANGED <<status, tsVars, linkVars>>

\* ================================== one link, its timers and its writes
\* The two pumps of one connection at the grain of the calls they make on
\* Client.conn: a write call begins (the frame starts to go out) and ends,
\* and the clock advances.  websocket.Conn allows one writer at a time and
\* has no lock of its own: a write call that begins while another is in
\* progress either panics or mixes its bytes with the other frame

\* a write call of task begins on the link of c
BeginWrite(c, task, frame) ==
  /\ out' = [out EXCEPT ![c] = Append(@, frame)]
  /\ writers' = [writers EXCEPT ![c] = @ \cup {task}]
  /\ overlap' = (overlap \/ writers[c] # {})
  /\ fatal' \in IF writers[c] # {}
                  THEN {fatal, "concurrent write to websocket connection"}
                  ELSE {fatal}

\* broadcastMessage: case client.send <- message, on a queue with room
Deliver(c) ==
  /\ Running
  /\ deliveries > 0
  /\ ~closed[c]
  /\ HasRoom(c)
  /\ deliveries' = deliveries - 1
  /\ send' = [send EXCEPT ![c] = TrySend(@, Message("a", "message", 1))]
  /\ UNCHANGED <<hubVars, clientChannels, closed, closes, conn, out, taskVars, ghostVars,
                 status, tsVars>>
  /\ UNCHANGED <<now, readDeadline, extended, ticker, cap, nextTick, unanswered, writers,
                 overlap, pings>>

\* writePump: case message, ok := <-c.send with ok: c.conn.WriteJSON(message)
WriteJSONBegin(c) ==
  /\ Running
  /\ wp[c] = "run"
  /\ conn[c] = "open"
  /\ send[c] # <<>>
  /\ send' = [send EXCEPT ![c] = Tail(@)]
  /\ wp' = [wp EXCEPT ![c] = "write"]
  /\ BeginWrite(c, "writePump", MsgFrame(Head(send[c])))
  /\ UNCHANGED <<hubVars, clientChannels, closed, closes, conn, pc, bc, rm, ghostVars,
                 status, tsVars>>
  /\ UNCHANGED <<now, readDeadline, extended, ticker, cap, nextTick, unanswered, pings,
                 deliveries>>

\* writePump: case <-ticker.C: c.conn.WriteMessage(websocket.PingMessage, nil)
WritePingBegin(c) ==
  /\ Running
  /\ wp[c] = "run"
  /\ conn[c] = "open"
  /\ now >= nextTick[c]
  /\ nextTick' = [nextTick EXCEPT ![c] = @ + ticker[c]]
  /\ unanswered' = [unanswered EXCEPT ![c] = @ + 1]
  /\ wp' = [wp EXCEPT ![c] = "write"]
  /\ BeginWrite(c, "writePump", PingFrame)
  /\ UNCHANGED <<hubVars, clientChannels, send, closed, closes, conn, pc, bc, rm,
                 ghostVars, status, tsVars>>
  /\ UNCHANGED <<now, readDeadline, extended, ticker, cap, pings, deliveries>>

\* the write call of writePump returns without error
WriteEnd(c) ==
  /\ Running
  /\ wp[c] = "write"
  /\ wp' = [wp EXCEPT ![c] = "run"]
  /\ writers' = [writers EXCEPT ![c] = @ \ {"writePump"}]
  /\ UNCHANGED <<hubVars, clientVars, pc, bc, rm, fatal, ghostVars, status, tsVars>>
  /\ UNCHANGED <<now, readDeadline, extended, ticker, cap, nextTick, unanswered, overlap,
                 pings, deliveries>>

\* readPump: case "ping": c.conn.WriteMessage(websocket.TextMessage, pong)
WritePongBegin(c) ==
  /\ Running
  /\ pc[c] = "read"
  /\ conn[c] = "open"
  /\ now <= readDeadline[c]
  /\ pings > 0
  /\ pings' = pings - 1
  /\ pc' = [pc EXCEPT ![c] = "pong"]
  /\ BeginWrite(c, "readPump", PongFrame)
  /\ UNCHANGED <<hubVars, clientChannels, send, closed, closes, conn, wp, bc, rm,
                 ghostVars, status, tsVars>>
  /\ UNCHANGED <<now, readDeadline, extended, ticker, cap, nextTick, unanswered, deliveries>>

\* the write call of readPump returns without error: back to ReadMessage
WritePongEnd(c) ==
  /\ Running
  /\ pc[c] = "pong"
  /\ pc' = [pc EXCEPT ![c] = "read"]
  /\ writers' = [writers EXCEPT ![c] = @ \ {"readPump"}]
  /\ UNCHANGED <<hubVars, clientVars, wp, bc, rm, fatal, ghostVars, status, tsVars>>
  /\ UNCHANGED <<now, readDeadline, extended, ticker, cap, nextTick, unanswered, overlap,
                 pings, deliveries>>

\* the pong handler set by ServeWs, run inside ReadMessage when the peer
\* answers a transport-level ping: SetReadDeadline(time.Now().Add(pongWait))
PongHandler(c) ==
  /\ Running
  /\ pc[c] = "read"
  /\ conn[c] = "open"
  /\ unanswered[c] > 0
  /\ now <= readDeadline[c]
  /\ unanswered' = [unanswered EXCEPT ![c] = @ - 1]
  /\ readDeadline' = [readDeadline EXCEPT ![c] = now + pongWait]
  /\ extended' = [extended EXCEPT ![c] = now]
  /\ UNCHANGED <<hubVars, clientVars, taskVars, ghostVars, status, tsVars>>
  /\ UNCHANGED <<now, ticker, cap, nextTick, writers, overlap, pings, deliveries>>

\* ReadMessage fails on the expired read deadline: the deferred RemoveClient
\* and c.conn.Close() of readPump
ReadTimeout(c) ==
  /\ Running
  /\ pc[c] = "read"
  /\ conn[c] = "open"
  /\ now > readDeadline[c]
  /\ RemoveClient(c, c, clientChannels[c])
  /\ UNCHANGED <<channels, register, unregister, broadcast, clientChannels, send, out,
                 wp, ghostVars, tsVars, linkVars>>

\* time passes
Advance ==
  /\ Running
  /\ now < MaxTime
  /\ now' = now + TimeStep
  /\ UNCHANGED <<hubVars, clientVars, taskVars, ghostVars, status, tsVars>>
  /\ UNCHANGED <<readDeadline, extended, ticker, cap, nextTick, unanswered, writers, overlap,
                 pings, deliveries>>

\* ===================================================== the client runtime
\* ts-client/src/index.ts: one SocketClient and one SocketServer
maxReconnectAttempts == 5
Min(x, y) == IF x <= y THEN x ELSE y

NoTimer == [set |-> FALSE, pending |-> FALSE, delay |-> 0]
Timer(ms) == [set |-> TRUE, pending |-> TRUE, delay |-> ms]
Frame(action, ch) == [action |-> action, channel |-> ch]

\* new Channel(name); id tells the objects apart, events is Channel.events as
\* the (event name, callback) pairs it holds, each event's callbacks in the
\* insertion order of its Set
Channel(name, id) == [name |-> name, id |-> id, events |-> <<>>]
Tracks(name) == \E i \in 1..Len(tsChannels) : tsChannels[i].name = name
\* SocketClient.channel(channelName), where it is defined
channel(name) == tsChannels[CHOOSE i \in 1..Len(tsChannels) : tsChannels[i].name = name]
WithoutKeeps(chs, name) == chs
Without(chs, name) == SelectSeq(chs, LAMBDA c : c.name # name)

Call(op, name) == [op |-> op, name |-> name]

\* new SocketClient(opts): the constructor calls connect()
NewSocketClient ==
  /\ socket = "CONNECTING"
  /\ tsChannels = <<>>
  /\ reconnectAttempts = 0
  /\ reconnectTimeout = NoTimer
  /\ messageQueue = <<>>
  /\ wire = <<>>
  /\ errors = 0
  /\ invoked = <<>>
  /\ fetched = <<>>
  /\ outcome = [state |-> "none", error |-> <<>>]
  /\ made = 0
  /\ issued = <<>>
  /\ last = Call("new", "")
  /\ tracked = {}
  /\ bindings = {}
  /\ bound = {}
  /\ msgs = MaxMsgs
  /\ delays = <<>>
  /\ calls = MaxCalls
  /\ opens = MaxOpens
  /\ posts = MaxPosts

IsOpen == socket = "OPEN"

\* SocketClient.send(data) on the pair of the socket's wire and the queue
ClientSend(open, st, data) ==
  IF open THEN [st EXCEPT !.wire = Append(@, data)]
          ELSE [st EXCEPT !.queue = Append(@, data)]
RECURSIVE SendEach(_, _, _)
SendEach(open, st, datas) ==
  IF datas = <<>> THEN st ELSE SendEach(open, ClientSend(open, st, Head(datas)), Tail(datas))
\* while (this.messageQueue.length > 0) this.send(this.messageQueue.shift())
RECURSIVE Flush(_)
Flush(st) ==
  IF st.queue = <<>> THEN st
  ELSE Flush(ClientSend(TRUE, [st EXCEPT !.queue = Tail(@)], Head(st.queue)))
ResubscribesNone(chs) == <<>>
ResubscribesFirst(chs) ==
  IF chs = <<>> THEN <<>> ELSE <<Frame("subscribe", chs[1].name)>>
Resubscribes(chs) == [i \in 1..Len(chs) |-> Frame("subscribe", chs[i].name)]
\* the body of onopen after the counter reset: resubscribe, then flush
OpenSendsResubscribesTwice(st, chs) ==
  Flush(SendEach(TRUE, SendEach(TRUE, st, Resubscribes(chs)), Resubscribes(chs)))
OpenSends(st, chs) == Flush(SendEach(TRUE, st, Resubscribes(chs)))

\* this.reconnectAttempts = 0 in onopen
KeepAttempts(attempts) == attempts
ResetAttempts(attempts) == 0
\* socket.onopen
OnOpen ==
  /\ socket = "CONNECTING"
  /\ opens > 0
  /\ opens' = opens - 1
  /\ socket' = "OPEN"
  /\ reconnectAttempts' = ResetAttempts(reconnectAttempts)
  /\ LET st == OpenSends([wire |-> wire, queue |-> messageQueue], tsChannels) IN
       /\ wire' = st.wire
       /\ messageQueue' = st.queue
  /\ delays' = <<>>
  /\ UNCHANGED <<tsChannels, reconnectTimeout, errors, invoked, fetched, outcome, made,
                 issued, last, tracked, bindings, calls, posts, bound, msgs>>
  /\ UNCHANGED serverVars

\* socket.onclose with event.code = code; jitter is Math.random() * 500
ShouldReconnectBut1000(code) == code # 1000
ShouldReconnect(code) == code # 1000 /\ code # 1001
DelayLinear(attempts) == Min(1000 * (attempts + 1), 30000)
Delay(attempts) == Min(1000 * 2 ^ attempts, 30000)
OnClose(code, jitter) ==
  /\ socket \in {"CONNECTING", "OPEN", "CLOSING"}
  /\ socket' = "CLOSED"
  /\ IF ShouldReconnect(code) /\ reconnectAttempts < maxReconnectAttempts
       THEN /\ reconnectTimeout' = Timer(Delay(reconnectAttempts) + jitter)
            /\ reconnectAttempts' = reconnectAttempts + 1
            /\ delays' = Append(delays, Delay(reconnectAttempts))
            /\ UNCHANGED errors
       ELSE /\ reconnectTimeout' = NoTimer
            /\ errors' = errors + 1
            /\ UNCHANGED <<reconnectAttempts, delays>>
  /\ issued' = IF IsOpen THEN <<>> ELSE issued
  /\ UNCHANGED <<tsChannels, messageQueue, wire, invoked, fetched, outcome, made, last,
                 tracked, bindings, calls, opens, posts, bound, msgs>>
  /\ UNCHANGED serverVars

\* the reconnect timer fires: connect() makes a new socket
ReconnectTimer ==
  /\ reconnectTimeout.pending
  /\ reconnectTimeout' = [reconnectTimeout EXCEPT !.pending = FALSE]
  /\ socket' = "CONNECTING"
  /\ wire' = <<>>
  /\ UNCHANGED <<tsChannels, reconnectAttempts, messageQueue, errors, invoked, fetched,
                 outcome, made, issued, last, tracked, bindings, delays, calls, opens, posts, bound, msgs>>
  /\ UNCHANGED serverVars

\* SocketClient.close(): socket.close() starts the closing handshake
Close ==
  /\ calls > 0
  /\ calls' = calls - 1
  /\ socket' = IF socket \in {"CONNECTING", "OPEN"} THEN "CLOSING" ELSE socket
  /\ issued' = IF IsOpen THEN <<>> ELSE issued
  /\ last' = Call("close", "")
  /\ UNCHANGED <<tsChannels, reconnectAttempts, reconnectTimeout, messageQueue, wire,
                 errors, invoked, fetched, outcome, made, tracked, bindings,
                 delays, opens, posts, bound, msgs>>
  /\ UNCHANGED serverVars

\* SocketClient.subscribe(channelName)
SubscribeAlwaysNew(chs, name, id) == Append(Without(chs, name), Channel(name, id))
SubscribeChannels(chs, name, id) ==
  IF \E i \in 1..Len(chs) : chs[i].name = name THEN chs ELSE Append(chs, Channel(name, id))
Subscribe(name) ==
  /\ calls > 0
  /\ calls' = calls - 1
  /\ tsChannels' = SubscribeChannels(tsChannels, name, made)
  /\ made' = IF Tracks(name) THEN made ELSE made + 1
  /\ LET st == IF ~Tracks(name) /\ IsOpen
                 THEN ClientSend(IsOpen, [wire |-> wire, queue |-> messageQueue],
                                 Frame("subscribe", name))
                 ELSE [wire |-> wire, queue |-> messageQueue]
     IN wire' = st.wire /\ messageQueue' = st.queue
  /\ issued' = IF ~Tracks(name) /\ ~IsOpen THEN Append(issued, Frame("subscribe", name))
                                           ELSE issued
  /\ tracked' = tracked \cup {name}
  /\ last' = Call("subscribe", name)
  /\ UNCHANGED <<socket, reconnectAttempts, reconnectTimeout, errors, invoked, fetched,
                 outcome, bindings, delays, opens, posts, bound, msgs>>
  /\ UNCHANGED serverVars

\* SocketClient.unsubscribe(channelName)
Unsubscribe(name) ==
  /\ calls > 0
  /\ calls' = calls - 1
  /\ tsChannels' = Without(tsChannels, name)
  /\ LET st == IF Tracks(name) /\ IsOpen
                 THEN ClientSend(IsOpen, [wire |-> wire, queue |-> messageQueue],
                                 Frame("unsubscribe", name))
                 ELSE [wire |-> wire, queue |-> messageQueue]
     IN wire' = st.wire /\ messageQueue' = st.queue
  /\ issued' = IF Tracks(name) /\ ~IsOpen THEN Append(issued, Frame("unsubscribe", name))
                                          ELSE issued
  /\ tracked' = tracked \ {name}
  /\ last' = Call("unsubscribe", name)
  /\ bindings' = {b \in bindings : b[1] # name}
  /\ bound' = {b \in bound : b[1] # name}
  /\ UNCHANGED <<socket, reconnectAttempts, reconnectTimeout, errors, invoked, fetched,
                 outcome, made, delays, opens, posts, msgs>>
  /\ UNCHANGED serverVars

\* Channel.bind(eventName, callback): Set.add
BindEventsPush(events, ev, cb) == Append(events, <<ev, cb>>)
BindEvents(events, ev, cb) ==
  IF \E i \in 1..Len(events) : events[i] = <<ev, cb>> THEN events
  ELSE Append(events, <<ev, cb>>)
\* SocketClient.bind(channelName, eventName, callback) -> Channel.bind
BindChannels(chs, name, ev, cb) ==
  [i \in 1..Len(chs) |-> IF chs[i].name = name
                           THEN [chs[i] EXCEPT !.events = BindEvents(@, ev, cb)]
                           ELSE chs[i]]
Bind(name, ev, cb) ==
  /\ calls > 0
  /\ calls' = calls - 1
  /\ tsChannels' = BindChannels(tsChannels, name, ev, cb)
  /\ bindings' = bindings \cup {<<name, ev, cb>>}
  /\ bound' = IF Tracks(name) THEN bound \cup {<<name, ev, cb>>} ELSE bound
  /\ last' = Call("bind", name)
  /\ UNCHANGED <<socket, reconnectAttempts, reconnectTimeout, messageQueue, wire, errors,
                 invoked, fetched, outcome, made, issued, tracked, delays, opens, posts, msgs>>
  /\ UNCHANGED serverVars

\* Channel.unbind(eventName, callback); "" stands for an argument left out
UnbindEvents(events, ev, cb) ==
  IF ev # "" /\ cb # "" THEN SelectSeq(events, LAMBDA e : e # <<ev, cb>>)
  ELSE IF ev # "" THEN SelectSeq(events, LAMBDA e : e[1] # ev)
  ELSE <<>>
\* SocketClient.unbind(channelName, eventName, callback) -> Channel.unbind
UnbindChannels(chs, name, ev, cb) ==
  [i \in 1..Len(chs) |-> IF chs[i].name = name
                           THEN [chs[i] EXCEPT !.events = UnbindEvents(@, ev, cb)]
                           ELSE chs[i]]
\* the arguments unbind is called with: both, the event only, none, or the
\* callback only
UnbindArgs ==
  (EventNames \X Callbacks) \cup (EventNames \X {""}) \cup {<<"", "">>, <<"", "cb1">>}
Unbound(bs, name, ev, cb) ==
  {b \in bs : ~(/\ b[1] = name
                /\ (ev # "" => b[2] = ev)
                /\ ((ev # "" /\ cb # "") => b[3] = cb))}
Unbind(name, ev, cb) ==
  /\ calls > 0
  /\ calls' = calls - 1
  /\ tsChannels' = UnbindChannels(tsChannels, name, ev, cb)
  /\ bindings' = Unbound(bindings, name, ev, cb)
  /\ bound' = Unbound(bound, name, ev, cb)
  /\ last' = Call("unbind", name)
  /\ UNCHANGED <<socket, reconnectAttempts, reconnectTimeout, messageQueue, wire, errors,
                 invoked, fetched, outcome, made, issued, tracked, msgs, delays, opens, posts>>
  /\ UNCHANGED serverVars

\* Channel.trigger(eventName, data) of the tracked channel of m, if any: the
\* calls callback(data) made, in order
TriggeredAnyChannel(chs, m) ==
  IF chs = <<>> THEN <<>>
  ELSE [i \in 1..Len(SelectSeq(chs[1].events, LAMBDA e : e[1] = m.event)) |->
          <<SelectSeq(chs[1].events, LAMBDA e : e[1] = m.event)[i][2], m.payload>>]
Triggered(chs, m) ==
  IF \E i \in 1..Len(chs) : chs[i].name = m.channel
    THEN LET ch == chs[CHOOSE i \in 1..Len(chs) : chs[i].name = m.channel]
             cbs == SelectSeq(ch.events, LAMBDA e : e[1] = m.event)
         IN [i \in 1..Len(cbs) |-> <<cbs[i][2], m.payload>>]
    ELSE <<>>
\* socket.onmessage: JSON.parse(event.data), then Channel.trigger.  A frame
\* that does not parse is reported and nothing is invoked
OnMessage(parses, m) ==
  /\ IsOpen
  /\ msgs > 0
  /\ msgs' = msgs - 1
  /\ invoked' = IF parses THEN Triggered(tsChannels, m) ELSE <<>>
  /\ UNCHANGED <<socket, tsChannels, reconnectAttempts, reconnectTimeout, messageQueue,
                 wire, errors, fetched, outcome, made, issued, last, tracked, bindings,
                 delays, calls, opens, posts, bound>>
  /\ UNCHANGED serverVars

\* SocketServer.trigger(message): one fetch; response is what fetch resolves to
Responses == {[ok |-> TRUE, statusText |-> "OK"], [ok |-> FALSE, statusText |-> "Bad Request"]}
TriggerOutcomeIgnoresOk(response) == [state |-> "resolved", error |-> <<>>]
TriggerOutcome(response) ==
  IF ~response.ok
    THEN [state |-> "rejected", error |-> <<"Failed to trigger message: ", response.statusText>>]
    ELSE [state |-> "resolved", error |-> <<>>]
Post(message) == [path |-> "/trigger", method |-> "POST", body |-> message]
Trigger(message, response) ==
  /\ posts > 0
  /\ posts' = posts - 1
  /\ fetched' = Append(fetched, Post(message))
  /\ outcome' = TriggerOutcome(response)
  /\ UNCHANGED <<socket, tsChannels, reconnectAttempts, reconnectTimeout, messageQueue,
                 wire, errors, invoked, made, issued, last, tracked, bindings, delays,
                 calls, opens, bound, msgs>>
  /\ UNCHANGED serverVars

\* -------------------------------------------------------- specifications
\* the server with its links; the client runtime is not stepped
Init == HubInit /\ ServeWs /\ Buffered(SendCap, HubQueueCap) /\ NewSocketClient

Next ==
  \/ HubRegister
  \/ HubUnregister
  \/ HubBroadcast
  \/ \E r \in Requests : HandleTrigger(r)
  \/ \E t \in BTasks, c \in Conns : BroadcastVisit(t, c)
  \/ \E t \in BTasks : BroadcastReturn(t)
  \/ \E t \in Tasks, ch \in Chans : RemoveClientUnregister(t, ch)
  \/ \E t \in Tasks : RemoveClientSkip(t)
  \/ \E c \in Conns : ReadError(c)
  \/ \E c \in Conns, f \in Taken["ping"], wrote \in BOOLEAN : ReadPing(c, f, wrote)
  \/ \E c \in Conns, f \in Taken["subscribe"] : ReadSubscribe(c, f)
  \/ \E c \in Conns, f \in Taken["unsubscribe"] : ReadUnsubscribe(c, f)
  \/ \E c \in Conns, f \in Taken["message"] : ReadPublish(c, f)
  \/ \E c \in Conns, f \in Taken["drop"] : ReadDropped(c, f)
  \/ \E c \in Conns : WritePumpSend(c)
  \/ \E c \in Conns, took \in BOOLEAN : WritePumpError(c, took)
  \/ \E c \in Conns : WritePumpClosed(c)

Spec == Init /\ [][Next]_vars

\* one client runtime and one SocketServer; the server is not stepped
ClientInit ==
  /\ HubInit /\ ServeWs /\ Buffered(SendCap, HubQueueCap)
  /\ clientChannels = [c \in Conns |-> ListenerChans] /\ NewSocketClient
ClientNext ==
  \/ OnOpen
  \/ \E code \in CloseCodes, jitter \in Jitters : OnClose(code, jitter)
  \/ ReconnectTimer
  \/ Close
  \/ \E name \in Chans : Subscribe(name)
  \/ \E name \in Chans : Unsubscribe(name)
  \/ \E name \in Chans, ev \in EventNames, cb \in Callbacks : Bind(name, ev, cb)
  \/ \E name \in Chans, args \in UnbindArgs : Unbind(name, args[1], args[2])
  \/ \E parses \in BOOLEAN, ch \in Chans, ev \in EventNames, p \in Payloads :
       OnMessage(parses, Message(ch, ev, p))
  \/ \E ch \in PostChans, p \in Payloads, response \in Responses :
       Trigger(Message(ch, "chat", p), response)
ClientSpec == ClientInit /\ [][ClientNext]_vars

\* the link of one speaker with its two pumps, the clock and the Hub's part
\* in a teardown; nothing else is stepped
LinkInit == ClientInit
LinkNext ==
  \/ \E c \in Speakers : Deliver(c)
  \/ \E c \in Speakers : WriteJSONBegin(c)
  \/ \E c \in Speakers : WritePingBegin(c)
  \/ \E c \in Speakers : WriteEnd(c)
  \/ \E c \in Speakers : WritePongBegin(c)
  \/ \E c \in Speakers : WritePongEnd(c)
  \/ \E c \in Speakers : PongHandler(c)
  \/ \E c \in Speakers : ReadTimeout(c)
  \/ \E c \in Speakers, ch \in Chans : RemoveClientUnregister(c, ch)
  \/ HubUnregister
  \/ \E c \in Speakers : WritePumpClosed(c)
  \/ Advance
LinkSpec == LinkInit /\ [][LinkNext]_vars

\* one publishing connection and its subscribers, with queues that hold more
\* than one element; the payload of a published frame is its position among
\* the frames the connection sends, so that two messages can be told apart
Sent == MaxFrames - frames + 1
Numbered(n) == Inbound(TRUE, TRUE, "message", "a", "", n)
OrderInit ==
  /\ HubInit /\ ServeWs /\ Buffered(OrderCap, OrderCap)
  /\ clientChannels = [c \in Conns |-> ListenerChans] /\ NewSocketClient
OrderNext ==
  \/ HubRegister
  \/ HubUnregister
  \/ HubBroadcast
  \/ \E r \in Requests : HandleTrigger(r)
  \/ \E t \in BTasks, c \in Conns : BroadcastVisit(t, c)
  \/ \E t \in BTasks : BroadcastReturn(t)
  \/ \E t \in Tasks, ch \in Chans : RemoveClientUnregister(t, ch)
  \/ \E t \in Tasks : RemoveClientSkip(t)
  \/ \E c \in Conns : ReadError(c)
  \/ \E c \in Conns, f \in Taken["subscribe"] : ReadSubscribe(c, f)
  \/ \E c \in Conns, f \in Taken["unsubscribe"] : ReadUnsubscribe(c, f)
  \/ \E c \in Conns : ReadPublish(c, Numbered(Sent))
  \/ \E c \in Conns : WritePumpSend(c)
  \/ \E c \in Conns : WritePumpClosed(c)
OrderSpec == OrderInit /\ [][OrderNext]_vars

\* ================================================================ claims
HubIdle == pc["hub"] = "select"
InQueue(q, c) == \E i \in 1..Len(q) : q[i].Client = c
Subscribed(c) == {ch \in Chans : c \in Members(ch)}
Terminated == ~ENABLED Next

\* no RemoveClient has started for c and none of its events waits for the Hub
Settled(c) ==
  /\ HubIdle
  /\ ~InQueue(register, c) /\ ~InQueue(unregister, c)
  /\ closes[c] = 0
  /\ \A t \in Tasks : rm[t].client # c

\* C1: once the Hub has handled every subscribe / unsubscribe frame of a
\* connection, the channels it holds the connection in are the net effect of
\* the frames in the order they were sent
C1_NetEffect == \A c \in Conns : Settled(c) => Subscribed(c) = expected[c]

\* C2: a broadcast that found no member's queue full or closed has enqueued
\* its message exactly once for every member and for no other connection
BroadcastOver(t) == pc[t] = "bcast" /\ ToVisit(t) = {} /\ ~bc[t].sat
C2_ExactlyOnce ==
  \A t \in BTasks : BroadcastOver(t) =>
    \A c \in Conns :
      /\ bc[t].got[c] <= 1
      /\ c \in bc[t].start \ bc[t].left => bc[t].got[c] = 1
      /\ c \notin bc[t].start => bc[t].got[c] = 0
C2_Witness ==
  \E t \in BTasks : /\ BroadcastOver(t)
                    /\ bc[t].start = Conns /\ bc[t].left = {}
                    /\ \A c \in Conns : bc[t].got[c] = 1

\* C3: a member found with a full queue is removed: when the system has come
\* to rest its queue is closed and it is in no channel's member set
C3_SaturatedRemoved ==
  Terminated => \A c \in forced : closed[c] /\ Subscribed(c) = {}

\* C4: the outbound queue of a connection is closed at most once
C4_ClosedOnce == \A c \in Conns : closes[c] <= 1

\* C5: the Hub never waits to send on the unregister queue, which only the Hub
\* itself drains
C5_HubNeverBlocks ==
  ~(pc["hub"] = "remove" /\ RmToVisit("hub") # {} /\ Len(unregister) >= cap.hub)

\* C6: no broadcast sends on a queue that has been closed; the process never
\* ends in a panic
C6_NoSendOnClosed == fatal # "send on closed channel"

\* C7: whenever the Hub is between two events, a channel has a registry entry
\* exactly if some connection lists it, and no entry is empty
C7_RegistryEntries ==
  HubIdle =>
    /\ \A ch \in Chans : Has(channels, ch) <=> \E c \in Conns : ch \in clientChannels[c]
    /\ \A ch \in DOMAIN channels : channels[ch] # {}
C7_Witness ==
  /\ HubIdle /\ unregister = <<>>
  /\ \E c \in Conns, ch \in Chans : rmIssued[c][ch] > 0 /\ ~Has(channels, ch)

\* C8: only the Hub's Run loop ranges over the registry
C8_RegistryOnlyHub == \A t \in BTasks : pc[t] = "bcast" => t = "hub"

\* C9: RemoveClient issues at most one unregister event per channel of a
\* connection, over all the paths that remove it
C9_UnregisterOnce == \A c \in Conns, ch \in Chans : rmIssued[c][ch] <= 1

\* C10: every ping frame read on a link writes exactly one pong to that link
\* and nothing to any other link
PingRead(c) == \E f \in Taken["ping"], wrote \in BOOLEAN : ReadPing(c, f, wrote)
OthersSilent(c) == \A d \in Conns \ {c} : out'[d] = out[d]
C10_PingPong ==
  [][\A c \in Conns : PingRead(c) => out'[c] = Append(out[c], PongFrame) /\ OthersSilent(c)]_vars
\* C10 amended: a ping read writes one pong to its link and the loop goes on,
\* or the write fails, nothing is written and the loop ends in RemoveClient
TornDown(c) == pc'[c] \in {"remove", "done"} \/ closes'[c] = closes[c] + 1
C10_PingPongOrTeardown ==
  [][\A c \in Conns : PingRead(c) =>
       /\ OthersSilent(c)
       /\ \/ out'[c] = Append(out[c], PongFrame) /\ pc'[c] = "read" /\ ~TornDown(c)
          \/ out'[c] = out[c] /\ TornDown(c)]_vars
C10_Witness ==
  \E c \in Conns : /\ \E i \in 1..Len(out[c]) : out[c][i] = PongFrame
                   /\ \E t \in BTasks : pc[t] = "bcast"

\* C11: a /trigger request gets exactly one response: 405 for a method other
\* than POST, else 400 for a body that does not decode, else 408 when its
\* context is done at the select, else 200 once the broadcast has returned; a
\* request answered 405, 400 or 408 broadcasts nothing and changes nothing else
Rejection(r) ==
  IF r.method # "POST" THEN "405"
  ELSE IF r.body.syntax # "ok" THEN "400"
  ELSE IF r.done THEN "408" ELSE "none"
C11_OneOutcome ==
  [][/\ \A r \in Requests : HandleTrigger(r) =>
          IF Rejection(r) # "none"
            THEN status' = Rejection(r) /\ UNCHANGED <<hubVars, clientVars, pc, wp, bc, rm>>
            ELSE status' \in {"none", "200"}
     /\ (pc["trig"] # "idle" /\ pc'["trig"] = "idle") => status' = "200"]_vars

Count(seq, x) == Cardinality({i \in 1..Len(seq) : seq[i] = x})
\* the last action submitted for name while the socket was not open is a subscribe
AskedWhileDown(name) ==
  \E i \in 1..Len(issued) : /\ issued[i] = Frame("subscribe", name)
                            /\ \A j \in (i + 1)..Len(issued) : issued[j].channel # name

\* C12: a channel subscribed while the socket was not open gets exactly one
\* subscribe action on the socket that opens next
C12_OneSubscribe ==
  [][OnOpen => \A name \in Chans :
       AskedWhileDown(name) => Count(wire', Frame("subscribe", name)) = 1]_vars
C12_Witness ==
  /\ IsOpen /\ AskedWhileDown("a")
  /\ wire = <<Frame("subscribe", "a")>>

\* C13: a close with code 1000 or 1001 schedules no reconnect; a close with
\* any other code below the attempt bound schedules exactly one and adds one
\* to the attempt counter
C13_ReconnectOnAbnormal ==
  [][\A code \in CloseCodes, jitter \in Jitters : OnClose(code, jitter) =>
       IF code \in {1000, 1001}
         THEN /\ ~reconnectTimeout'.pending
              /\ delays' = delays
              /\ reconnectAttempts' = reconnectAttempts
         ELSE reconnectAttempts < maxReconnectAttempts =>
                /\ reconnectTimeout'.pending
                /\ Len(delays') = Len(delays) + 1
                /\ reconnectAttempts' = reconnectAttempts + 1]_vars
C13_Witness ==
  /\ socket = "CLOSED" /\ ~reconnectTimeout.pending
  /\ reconnectAttempts \in 1..(maxReconnectAttempts - 1)

\* C14: the nominal delays scheduled since the last open are 1 s, 2 s, 4 s,
\* 8 s, 16 s in this order, none above 30 s and never more than five; the
\* timer is set to the nominal delay plus a jitter below 500 ms
Nominal == <<1000, 2000, 4000, 8000, 16000>>
C14_Backoff ==
  /\ Len(delays) <= 5
  /\ \A k \in 1..Len(delays) : delays[k] = Nominal[k] /\ delays[k] <= 30000
  /\ reconnectTimeout.pending =>
       /\ delays # <<>>
       /\ reconnectTimeout.delay - delays[Len(delays)] \in 0..499
C14_Witness == Len(delays) = 5 /\ socket = "CLOSED" /\ errors = 1

\* C15: the terminal error is written exactly by a close with an abnormal
\* code that finds the attempt counter at its bound, and by nothing else
C15_ErrorOnlyOnExhaustion ==
  [][errors' # errors <=>
       \E code \in CloseCodes \ {1000, 1001}, jitter \in Jitters :
         OnClose(code, jitter) /\ reconnectAttempts >= maxReconnectAttempts]_vars

Submits(name) ==
  \/ Subscribe(name) /\ ~Tracks(name) /\ messageQueue' = Append(messageQueue, Frame("subscribe", name))
  \/ Subscribe(name) /\ Tracks(name) /\ messageQueue' = messageQueue
  \/ Unsubscribe(name) /\ Tracks(name) /\ messageQueue' = Append(messageQueue, Frame("unsubscribe", name))
  \/ Unsubscribe(name) /\ ~Tracks(name) /\ messageQueue' = messageQueue
C17_QueuedWhileDown ==
  [][\A name \in Chans :
       ~IsOpen /\ (Subscribe(name) \/ Unsubscribe(name)) => Submits(name)]_vars
\* C17 amended: a subscribe or unsubscribe submitted while the socket is not
\* open sends nothing and queues nothing, it only changes the tracked
\* channels; the next open sends one subscribe for every channel then tracked
\* and no unsubscribe
TrackedNames == {tsChannels[i].name : i \in 1..Len(tsChannels)}
C17_TrackedNotQueued ==
  [][/\ \A name \in Chans : ~IsOpen /\ (Subscribe(name) \/ Unsubscribe(name)) =>
          /\ wire' = wire /\ messageQueue' = messageQueue
          /\ TrackedNames' = tracked'
     /\ OnOpen => \A name \in Chans :
          /\ Count(wire', Frame("subscribe", name)) = IF name \in tracked THEN 1 ELSE 0
          /\ Count(wire', Frame("unsubscribe", name)) = 0]_vars
C17_Witness ==
  /\ IsOpen /\ Len(issued) = 3 /\ issued[2] = Frame("unsubscribe", "a")
  /\ wire = <<Frame("subscribe", "b")>>

\* C18: after bind(ch, ev, cb) on an open client a frame for (ch, ev) with
\* payload p invokes cb with p
C18_BoundCallbackInvoked ==
  [][\A ch \in Chans, ev \in EventNames, p \in Payloads :
       OnMessage(TRUE, Message(ch, ev, p)) =>
         \A cb \in Callbacks : <<ch, ev, cb>> \in bindings =>
            \E i \in 1..Len(invoked') : invoked'[i] = <<cb, p>>]_vars

\* C19: channel(name) is defined exactly for the names subscribed and not
\* unsubscribed since, and a subscribe of a tracked name leaves its Channel,
\* bindings included, as it is
C19_ChannelTracked ==
  [][/\ TrackedNames' = tracked'
     /\ Len(tsChannels') = Cardinality(tracked')
     /\ \A name \in Chans : Subscribe(name) /\ Tracks(name) =>
          channel(name)' = channel(name)]_vars
C19_Witness ==
  /\ last = Call("subscribe", "a") /\ Tracks("a")
  /\ made = 1 /\ channel("a").events # <<>>

\* C20: every SocketServer.trigger call makes exactly one POST to /trigger and
\* resolves when the response is ok, and rejects with 'Failed to trigger
\* message: <statusText>' when it is not
C20_TriggerOnce ==
  [][\A ch \in PostChans, p \in Payloads, response \in Responses :
       Trigger(Message(ch, "chat", p), response) =>
         /\ Len(fetched') = Len(fetched) + 1
         /\ fetched'[Len(fetched')] = [path |-> "/trigger", method |-> "POST",
                                       body |-> Message(ch, "chat", p)]
         /\ outcome'.state = IF response.ok THEN "resolved" ELSE "rejected"
         /\ ~response.ok =>
              outcome'.error = <<"Failed to trigger message: ", response.statusText>>]_vars
C20_Witness ==
  /\ Len(fetched) = 1
  /\ outcome = [state |-> "rejected",
                error |-> <<"Failed to trigger message: ", "Bad Request">>]

\* ------------------------------------------------------------------ C21
\* C21: when the Hub handles an unsubscribe for the only member of a channel,
\* the registry entry of the channel is gone after that step; when it handles
\* a subscribe for a channel that has no entry, the entry exists after that
\* step with exactly the subscribing connection as member.
C21_EntryDeletedAndRecreated ==
  [][/\ HubUnregister =>
          LET sub == Head(unregister) IN
            Members(sub.Channel) = {sub.Client} => ~Has(channels', sub.Channel)
     /\ HubRegister =>
          LET sub == Head(register) IN
            ~Has(channels, sub.Channel) =>
               /\ Has(channels', sub.Channel)
               /\ channels'[sub.Channel] = {sub.Client}]_vars

\* c1, the only member of b, was unsubscribed from b by its teardown, the Hub
\* has handled that, and a subscribe handled afterwards has recreated b
C21_Witness ==
  /\ rmIssued["c1"]["b"] = 1
  /\ unregister = <<>>
  /\ register = <<>>
  /\ pc["hub"] = "select"
  /\ Has(channels, "b")
  /\ channels["b"] = {"c1"}

\* ------------------------------------------------------------------ C22
\* C22: handling an incoming frame that is not valid JSON, or whose channel is
\* not tracked, invokes no callback and leaves the tracked channels with their
\* bindings, the attempt counter, the socket, the timer and what was sent as
\* they are, so that the next frame is handled from the same state.
C22_BadFrameIgnored ==
  [][msgs' # msgs =>
       \A parses \in BOOLEAN, ch \in Chans, ev \in EventNames, p \in Payloads :
         (OnMessage(parses, Message(ch, ev, p)) /\ (~parses \/ ch \notin tracked)) =>
            /\ invoked' = <<>>
            /\ UNCHANGED <<tsChannels, tracked, bound, bindings, reconnectAttempts,
                           reconnectTimeout, socket, messageQueue, wire>>]_vars

\* a has a callback for every event, one frame was handled and nothing was
\* invoked: the frame was not JSON or was for a channel that is not tracked
C22_Witness ==
  /\ msgs = MaxMsgs - 1
  /\ invoked = <<>>
  /\ tracked = {"a"}
  /\ bound = {<<"a", "chat", "cb1">>, <<"a", "news", "cb1">>}

\* ------------------------------------------------------------------ C23
\* C23: a frame for event ev of a tracked channel makes Channel.trigger call
\* each callback that is bound to ev on that channel exactly once with the
\* frame's payload, however often it was bound, and call no other callback:
\* none bound only to other events or channels, none unbound since.
C23_TriggerInvokesBound ==
  [][msgs' # msgs =>
       \A ch \in Chans, ev \in EventNames, p \in Payloads :
         (OnMessage(TRUE, Message(ch, ev, p)) /\ ch \in tracked) =>
            /\ \A cb \in Callbacks :
                 Count(invoked', <<cb, p>>) = IF <<ch, ev, cb>> \in bound THEN 1 ELSE 0
            /\ Len(invoked') = Cardinality({cb \in Callbacks : <<ch, ev, cb>> \in bound})]_vars

\* cb1 is bound to chat and cb2 to news on a; a chat frame invoked cb1 only
C23_Witness ==
  /\ msgs = MaxMsgs - 1
  /\ bound = {<<"a", "chat", "cb1">>, <<"a", "news", "cb2">>}
  /\ invoked = <<<<"cb1", 1>>>>

\* ------------------------------------------------------------------ C24
\* C24: when the Hub handles a subscribe for a connection that is already a
\* member of the channel, and when it handles an unsubscribe for a connection
\* that is not a member of the channel, the registry, every connection's
\* channel set and every outbound queue are the same after the step as before.
C24_IdempotentRegisterNoOpUnregister ==
  [][/\ HubRegister =>
          LET sub == Head(register) IN
            (sub.Client \in Members(sub.Channel) /\ sub.Channel \in clientChannels[sub.Client])
               => UNCHANGED <<channels, clientChannels, send, closed, clients>>
     /\ HubUnregister =>
          LET sub == Head(unregister) IN
            (sub.Client \notin Members(sub.Channel) /\ sub.Channel \notin clientChannels[sub.Client])
               => UNCHANGED <<channels, clientChannels, send, closed, clients>>]_vars

\* while a trigger's broadcast ranges over the members of a, the Hub has
\* handled an unsubscribe frame of c1, which was not a member of a
C24_Witness ==
  /\ pc["trig"] = "bcast"
  /\ bc["trig"].msg.channel = "a"
  /\ "c1" \in bc["trig"].left
  /\ "c1" \notin bc["trig"].start
  /\ rmIssued["c1"]["a"] = 0
  /\ frames = MaxFrames - 1
  /\ unregister = <<>>

\* ------------------------------------------------------------------ C25
\* C25: a broadcast to a channel that has no registry entry, taken by the Hub
\* from its queue or made by an accepted trigger request, changes no outbound
\* queue, no registry entry, no connection's channel set, removes no
\* connection and reports no error: the trigger request is answered 200.
Untouched ==
  UNCHANGED <<channels, clientChannels, clients, send, closed, closes, register,
              unregister, conn, out, pc, bc, rm, fatal, forced>>
C25_BroadcastToNoEntry ==
  [][/\ (HubBroadcast /\ ~Has(channels, Head(broadcast).channel)) => Untouched
     /\ \A r \in Requests :
          (/\ HandleTrigger(r)
           /\ r.method = "POST" /\ r.body.syntax = "ok" /\ ~r.done
           /\ ~Has(channels, r.body.channel)) => (Untouched /\ status' = "200")]_vars

\* a trigger request has been answered 200 and nothing else has happened, yet
\* no queue and no link holds a message: its channel had no entry
C25_Witness ==
  /\ status = "200"
  /\ trigs = MaxTriggers - 1
  /\ frames = MaxFrames
  /\ faults = MaxFaults
  /\ \A c \in Conns : send[c] = <<>> /\ out[c] = <<>>
  /\ Has(channels, "a")

\* ------------------------------------------------------------------ C26
\* one iteration of the inbound loop of c on frame f
ReadFrame(c, f) ==
  \/ \E wrote \in BOOLEAN : ReadPing(c, f, wrote)
  \/ ReadSubscribe(c, f)
  \/ ReadUnsubscribe(c, f)
  \/ ReadPublish(c, f)
  \/ ReadDropped(c, f)
Malformed(f) ==
  /\ f.text
  /\ \/ ~f.json
     \/ f.action \notin {"ping", "subscribe", "unsubscribe", "message"}
     \/ f.action \in {"subscribe", "unsubscribe", "message"} /\ f.channel = ""

\* C26: a text frame that is not JSON, or whose action is none of ping,
\* subscribe, unsubscribe, message, or that is a subscribe, unsubscribe or
\* message without a channel, puts no event in any Hub queue; the link stays
\* open, the connection's subscriptions and outbound queue are unchanged and
\* the inbound loop is back at reading the next frame.
C26_MalformedFrameIgnored ==
  [][\A c \in Conns, f \in Inbounds :
       (frames' # frames /\ Malformed(f) /\ ReadFrame(c, f)) =>
          /\ UNCHANGED <<register, unregister, broadcast, channels, clientChannels,
                         send, closed, conn, out, rm, fatal>>
          /\ pc'[c] = "read"]_vars

\* one frame has been read and nothing but the frame count shows it
C26_Witness ==
  /\ frames = MaxFrames - 1
  /\ trigs = MaxTriggers
  /\ faults = MaxFaults
  /\ register = <<>> /\ unregister = <<>> /\ broadcast = <<>>
  /\ expected = clientChannels
  /\ clientChannels["c1"] = Chans
  /\ \A c \in Conns : /\ pc[c] = "read" /\ conn[c] = "open"
                       /\ send[c] = <<>> /\ out[c] = <<>>

\* ------------------------------------------------------------------ C27
\* C27: reading a JSON text frame whose action is "message" appends exactly
\* one event to the Hub's broadcast queue when the frame has a channel, the
\* Message with that channel, the event name "message" and the frame's
\* payload, whatever event name the frame carries, and appends nothing when
\* the channel is empty; the other Hub queues are unchanged.
C27_PublishEmitsOneMessage ==
  [][\A c \in Conns, f \in Inbounds :
       (frames' # frames /\ f.text /\ f.json /\ f.action = "message" /\ ReadFrame(c, f)) =>
          IF f.channel # ""
            THEN /\ broadcast' = Append(broadcast, Message(f.channel, "message", f.payload))
                 /\ UNCHANGED <<register, unregister>>
            ELSE UNCHANGED <<broadcast, register, unregister>>]_vars

C27_Witness ==
  /\ frames = MaxFrames - 1
  /\ broadcast = <<Message("a", "message", 1)>>

\* ------------------------------------------------------------------ C28
\* C28: when nothing more can happen, every connection whose outbound loop
\* ended on a failed write or a failed liveness probe has been removed from
\* every channel, its outbound queue is closed, and its inbound loop has
\* ended too.
C28_WriteFailureTearsDown ==
  Terminated =>
    \A c \in Conns :
      wp[c] = "failed" => /\ Subscribed(c) = {}
                          /\ closed[c]
                          /\ pc[c] = "done"

\* ------------------------------------------------------------------ C29
\* C29 as stated: when nothing more can happen, the outbound loop of every
\* connection whose queue was closed has ended and the last frame it wrote is
\* the one close frame.
C29_CloseFrameSent ==
  Terminated =>
    \A c \in Conns :
      closed[c] => /\ wp[c] # "run"
                   /\ out[c] # <<>>
                   /\ out[c][Len(out[c])] = CloseFrame

\* C29: a close frame is the last frame written on its link and the only
\* close frame; when it is written the queue is closed and drained, so the
\* messages that were buffered come before it, and the outbound loop has
\* ended and closed the link.
C29_CloseFrameLast ==
  \A c \in Conns : \A i \in 1..Len(out[c]) :
    out[c][i] = CloseFrame => /\ i = Len(out[c])
                              /\ closed[c]
                              /\ send[c] = <<>>
                              /\ wp[c] = "done"
                              /\ conn[c] = "closed"

\* c2 was removed by a broadcast that found its queue full; the message that
\* filled the queue was written before the close frame
C29_Witness ==
  /\ "c2" \in forced
  /\ Len(out["c2"]) = 2
  /\ out["c2"][1].kind = "message"
  /\ out["c2"][2] = CloseFrame

\* ------------------------------------------------------------------ C30
\* C30: the onopen handler of every socket, the first and each one made by a
\* reconnect, sends exactly one subscribe for each channel that is tracked
\* when it runs, and none for a channel that is not subscribed then.
C30_ResubscribeOnOpen ==
  [][opens' # opens =>
       (OnOpen => \A name \in Chans :
          /\ Tracks(name) => Count(wire', Frame("subscribe", name)) = 1
          /\ name \notin tracked => Count(wire', Frame("subscribe", name)) = 0)]_vars

\* a and b were subscribed and b unsubscribed; the socket of the second open
\* has been sent the subscribe of a and nothing else
C30_Witness ==
  /\ IsOpen
  /\ opens = MaxOpens - 2
  /\ made = 2
  /\ tracked = {"a"}
  /\ last = Call("unsubscribe", "b")
  /\ wire = <<Frame("subscribe", "a")>>

\* ------------------------------------------------------------------ C31
\* the read-liveness timeout in force on the link of c
Timeout(c) == readDeadline[c] - extended[c]

\* C31 as stated: the ticker of a running outbound loop has a period of 90%
\* of the read-liveness timeout, the timeout is 30 s and the period 27 s.
C31_Period27 ==
  \A c \in Speakers :
    wp[c] # "done" => /\ ticker[c] * 10 = Timeout(c) * 9
                      /\ Timeout(c) = 30 * 1000
                      /\ ticker[c] = 27 * 1000

\* C31: the ticker of a running outbound loop has a period of 90% of the
\* read-liveness timeout, the timeout is 60 s and the period 54 s, at the
\* start and after every extension of the read deadline.
C31_Period54 ==
  \A c \in Speakers :
    wp[c] # "done" => /\ ticker[c] * 10 = Timeout(c) * 9
                      /\ Timeout(c) = 60 * 1000
                      /\ ticker[c] = 54 * 1000

\* the ticker fired at 54 s, the peer answered the probe at once and the read
\* deadline now ends at 114 s
C31_Witness ==
  /\ now = 54000
  /\ nextTick["c1"] = 108000
  /\ extended["c1"] = 54000
  /\ readDeadline["c1"] = 114000
  /\ wp["c1"] = "run"

\* ------------------------------------------------------------------ C32
\* C32: when RemoveClient has run to its end for a connection and the Hub,
\* still running, has emptied its three queues, the connection is in no
\* channel's member set and its own channel set is empty.
C32_RemovedEverywhere ==
  \A c \in Conns :
    (/\ Running
     /\ closed[c]
     /\ \A t \in Tasks : rm[t].client # c
     /\ HubIdle
     /\ register = <<>> /\ unregister = <<>> /\ broadcast = <<>>)
       => /\ Subscribed(c) = {}
          /\ clientChannels[c] = {}

\* ------------------------------------------------------------------ C33
\* C33: whenever the Hub is between two events, a connection is in the member
\* set of a channel exactly when the channel is in the connection's own set.
C33_DualBookkeeping ==
  HubIdle => \A c \in Conns, ch \in Chans : c \in Members(ch) <=> ch \in clientChannels[c]

\* a broadcast found the queue of c2 full and removed it; the Hub has handled
\* the unregister event of that removal
C33_Witness ==
  /\ Running
  /\ HubIdle
  /\ "c2" \in forced
  /\ closed["c2"]
  /\ rmIssued["c2"]["a"] = 1
  /\ unregister = <<>>
  /\ "c2" \notin Members("a")
  /\ clientChannels["c2"] = {}

\* ------------------------------------------------------------------ C34
\* C34: at most one task is inside a write call on a connection's link at any
\* time, and no write call ends the process.
C34_OneWriter ==
  /\ \A c \in Conns : Cardinality(writers[c]) <= 1
  /\ fatal # "concurrent write to websocket connection"

\* ------------------------------------------------------------------ C35
\* the messages of the publishing connection that have reached c, oldest
\* first: those written to its link, then those waiting in its queue
Reached(c) ==
  SelectSeq([i \in 1..Len(out[c]) |-> out[c][i].msg] \o send[c],
            LAMBDA m : m.event = "message")

\* C35: the messages one connection publishes to a channel with successive
\* "message" frames are put on each subscriber's queue, and written to its
\* link, in the order the connection sent them.
C35_PublishOrder ==
  \A c \in Conns : \A i, j \in 1..Len(Reached(c)) :
    i < j => Reached(c)[i].payload < Reached(c)[j].payload

\* C35 witness: two messages of the publisher wait together in the queue of one
\* subscriber, while the other has the first on its link and the second queued
C35_Witness ==
  /\ send["c2"] = <<Published(Numbered(1)), Published(Numbered(2))>>
  /\ out["c1"] = <<MsgFrame(Published(Numbered(1)))>>
  /\ send["c1"] = <<Published(Numbered(2))>>

\* ------------------------------------------------------------------ C36
\* C36: once close() is the last call made on the client, no step makes a
\* new WebSocket: a reconnect timer set by an earlier abnormal close does not
\* run connect().
C36_NoSocketAfterClose ==
  [][last = Call("close", "") => ~(socket # "CONNECTING" /\ socket' = "CONNECTING")]_vars

\* ------------------------------------------------------------------ C37
\* a reconnect is scheduled / the socket opens, in this step
Scheduled == ~reconnectTimeout.pending /\ reconnectTimeout'.pending
Opened == socket # "OPEN" /\ socket' = "OPEN"

\* C37: the reconnect attempt counter stays between 0 and the bound 5; it
\* changes only by going up by one in a step that schedules a reconnect, or by
\* going back to 0 in a step that opens the socket, and every step that
\* schedules a reconnect counts and every open resets the counter.
C37_AttemptCounter ==
  /\ [](reconnectAttempts \in 0..maxReconnectAttempts)
  /\ [][/\ (reconnectAttempts' # reconnectAttempts) =>
             ((reconnectAttempts' = reconnectAttempts + 1 /\ Scheduled)
                \/ (reconnectAttempts' = 0 /\ Opened))
        /\ Scheduled => (reconnectAttempts' = reconnectAttempts + 1)
        /\ Opened => (reconnectAttempts' = 0)]_vars

\* C37 witness: the socket made by a reconnect has opened and the counter is
\* back to 0, a reconnect having been scheduled before
C37_Witness ==
  /\ socket = "OPEN"
  /\ reconnectTimeout.set /\ ~reconnectTimeout.pending
  /\ reconnectAttempts = 0
====
